---------------------------- MODULE Spec2Model ----------------------------
(***************************************************************************)
(* Model of the gesture response orchestrator of the interactive avatar:   *)
(* the useVideoAvatar hook (src/src/hooks/useVideoAvatar.ts).              *)
(*                                                                         *)
(* Time is in milliseconds.  A progress value p of the code (a number in   *)
(* [0,1]) is held as the integer p * crossfadeDuration, so that            *)
(* elapsed / crossfadeDuration needs no fractions: transitionProgress = 0  *)
(* is progress 0 and transitionProgress = crossfadeDuration is progress 1. *)
(* Date.now() - startTime of a transition is held as the age of the        *)
(* transition, which saturates at crossfadeDuration (the code only ever    *)
(* uses min(elapsed / crossfadeDuration, 1)).                              *)
(*                                                                         *)
(* animationFrameRef.current is the handle returned by the latest          *)
(* requestAnimationFrame: the scheduled callback with held = TRUE, if that *)
(* callback has not run since.                                             *)
(*                                                                         *)
(* A handler runs with the closure of the render that created it: a        *)
(* detection is handled with the closure of the latest render (the hook's  *)
(* state as it is), the callback of the revert timer with the closure of   *)
(* the render in which the timer was armed.                                *)
(***************************************************************************)
EXTENDS Integers, Sequences, FiniteSets, TLC

VARIABLES
    videoState,            \* useState<VideoState>
    activeTransition,      \* useState<VideoTransition | null>
    tickers,               \* the animateTransition callbacks scheduled with requestAnimationFrame
    timers,                \* the setTimeout callbacks armed by handleGestureChange
    transitionTimeoutRef,  \* useRef: handle of the timer armed last (0: undefined)
    mounted,               \* the component that uses the hook is mounted
    rec,                   \* the Recognizer, the useRecognizer hook and the video element
    cls,                   \* App: the latest results and what is derived from them
    avatar,                \* the Avatar component
    va,                    \* the VideoAvatar component
    ur,                    \* useRecognizer with initializeRecognizer called more than once
    last                   \* history: the handler that ran last

vars == <<videoState, activeTransition, tickers, timers, transitionTimeoutRef, mounted,
          rec, cls, avatar, va, ur, last>>

\* The state of App's derivation and of the two presentation components.
uiVars == <<cls, avatar, va, ur>>

\* The state of the useVideoAvatar hook.
hookVars == <<videoState, activeTransition, tickers, timers, transitionTimeoutRef, mounted,
              last>>

-----------------------------------------------------------------------------
(* Bounds of the model *)

MaxTickers == 2
MaxTimers == 2
MaxManual == 1
MaxCalls == 2
TimeStep == 250

-----------------------------------------------------------------------------
(* Configuration *)

crossfadeDuration == 500

gestureResponseDuration == 3000

ProgressOne == crossfadeDuration

GestureType ==
    {"Thumb_Up", "Thumb_Down", "Closed_Fist", "Open_Palm", "Pointing_Up",
     "Victory", "OK", "ILoveYou", "None"}

gestureToVideo ==
    ("None" :> "idle") @@ ("Thumb_Up" :> "idle") @@ ("Thumb_Down" :> "idle") @@
    ("Closed_Fist" :> "idle") @@ ("Open_Palm" :> "wave") @@ ("Pointing_Up" :> "wave") @@
    ("Victory" :> "wave") @@ ("OK" :> "wave") @@ ("ILoveYou" :> "wave")

\* The value null of activeTransition.
Null == [null |-> TRUE]

Min(a, b) == IF a < b THEN a ELSE b

Max(a, b) == IF a > b THEN a ELSE b

-----------------------------------------------------------------------------
(* Pure parts of the hook *)

getTargetVideo(gestureType, isPersonDetected) ==
    IF ~isPersonDetected
    THEN "idle"
    ELSE IF gestureType \in DOMAIN gestureToVideo
         THEN gestureToVideo[gestureType]
         ELSE "idle"

\* The closure a handler created by the current render sees.
RenderClosure ==
    [currentVideo |-> videoState.currentVideo,
     isTransitioning |-> videoState.isTransitioning]

\* A slip in the guard: the test of isTransitioning the wrong way round.
IsNoOpWhileTransitioning(targetVideo, closure) ==
    targetVideo = closure.currentVideo /\ closure.isTransitioning

\* startTransition: the guard of its early return.
IsNoOp(targetVideo, closure) ==
    targetVideo = closure.currentVideo /\ ~closure.isTransitioning

\* startTransition: the VideoTransition it publishes.
NewTransition(targetVideo, closure) ==
    [from |-> closure.currentVideo, to |-> targetVideo,
     duration |-> crossfadeDuration, age |-> 0]

\* A slip in the updater: previousVideo is not snapshotted.
BeginTransitionNoSnapshot(prev, targetVideo) ==
    [prev EXCEPT !.currentVideo = targetVideo,
                 !.isTransitioning = TRUE,
                 !.transitionProgress = 0]

\* startTransition: the updater it passes to setVideoState.
BeginTransition(prev, targetVideo) ==
    [prev EXCEPT !.previousVideo = prev.currentVideo,
                 !.currentVideo = targetVideo,
                 !.isTransitioning = TRUE,
                 !.transitionProgress = 0]

\* startTransition: what becomes of the callbacks already scheduled when a new
\* one is requested (the code cancels none; they are superseded but alive).
Supersede(ts) ==
    [i \in 1..Len(ts) |-> [ts[i] EXCEPT !.newest = FALSE]]

\* animationFrameRef.current = requestAnimationFrame(...): the handles of the
\* callbacks in ts are no longer the one the ref holds.
Overwritten(ts) ==
    [i \in 1..Len(ts) |-> [ts[i] EXCEPT !.held = FALSE]]

\* cancelAnimationFrame(animationFrameRef.current)
CancelAnimationFrame(ts) == SelectSeq(ts, LAMBDA t : ~t.held)

\* A slip: progress advances by a fixed step per callback, not by elapsed time.
ProgressPerTick(t) ==
    IF t.ticked THEN crossfadeDuration ELSE Min(TimeStep, crossfadeDuration)

\* A slip: the clamp stops short of 1, so the transition never completes.
ProgressBelowOne(t) == Min(t.elapsed, crossfadeDuration - 1)

\* animateTransition: progress from the elapsed time of the ticker t.
Progress(t) == Min(t.elapsed, crossfadeDuration)

\* A slip: the timer armed before is left armed.
ClearTimeoutForgotten(ts, handle) == ts

\* clearTimeout(handle) on the set ts of armed timers.
ClearTimeout(ts, handle) == {t \in ts : t.id # handle}

\* A slip: the incoming video fades in over the whole transition.
OpacityFadeInLinear(vs, videoType) ==
    IF ~vs.isTransitioning
    THEN IF vs.currentVideo = videoType THEN ProgressOne ELSE 0
    ELSE IF videoType = vs.currentVideo
         THEN Min(vs.transitionProgress, ProgressOne)
         ELSE IF videoType = vs.previousVideo
              THEN Max(ProgressOne - vs.transitionProgress * 2, 0)
              ELSE 0

\* A slip: the outgoing video fades out over the whole transition.
OpacityFadeOutLinear(vs, videoType) ==
    IF ~vs.isTransitioning
    THEN IF vs.currentVideo = videoType THEN ProgressOne ELSE 0
    ELSE IF videoType = vs.currentVideo
         THEN Min(vs.transitionProgress * 2, ProgressOne)
         ELSE IF videoType = vs.previousVideo
              THEN Max(ProgressOne - vs.transitionProgress, 0)
              ELSE 0

\* getVideoOpacity(videoType) on the video state vs; an opacity o of the code
\* is held as o * crossfadeDuration, like a progress.
Opacity(vs, videoType) ==
    IF ~vs.isTransitioning
    THEN IF vs.currentVideo = videoType THEN ProgressOne ELSE 0
    ELSE IF videoType = vs.currentVideo
         THEN Min(vs.transitionProgress * 2, ProgressOne)
         ELSE IF videoType = vs.previousVideo
              THEN Max(ProgressOne - vs.transitionProgress * 2, 0)
              ELSE 0

getVideoOpacity(videoType) == Opacity(videoState, videoType)

\* A slip: only the current video plays.
ShouldPlayCurrentOnly(vs, videoType) ==
    vs.currentVideo = videoType

\* shouldPlayVideo(videoType) on the video state vs.
ShouldPlay(vs, videoType) ==
    \/ vs.currentVideo = videoType
    \/ /\ vs.isTransitioning
       /\ (videoType = vs.currentVideo \/ videoType = vs.previousVideo)

shouldPlayVideo(videoType) == ShouldPlay(videoState, videoType)

FreeTimerIds(ts) == (1..MaxTimers) \ {t.id : t \in ts}

RemoveAt(s, i) == [j \in 1..(Len(s) - 1) |-> IF j < i THEN s[j] ELSE s[j + 1]]

-----------------------------------------------------------------------------
(* Recognizer (src/src/lib/Recognizer.ts) and useRecognizer: pure parts.     *)
(*                                                                          *)
(* A GestureRecognizerResult is held as 1 or 2 (two results that differ),   *)
(* null as 0.  The detector calls in flight are kept in the order in which  *)
(* they were made, which is the order of their performance.now()            *)
(* timestamps; a call is overtaken once the result of a later call has been *)
(* handed to the callback.                                                  *)

\* HTMLMediaElement.HAVE_CURRENT_DATA
HAVE_CURRENT_DATA == 2

ReadyStates == 0..4

RecLast(op, outcome, delivered, inOrder) ==
    [op |-> op, outcome |-> outcome, delivered |-> delivered, inOrder |-> inOrder]

RecInitial ==
    [readyState |-> 0,          \* videoElement.readyState
     videoRef |-> FALSE,        \* videoRef.current is set
     pc |-> "notCalled",        \* where initializeRecognizer / create / init stands
     recognizer |-> FALSE,      \* this.recognizer is not null
     recognizerRef |-> FALSE,   \* recognizerRef.current is set
     resultsCallback |-> FALSE, \* this.resultsCallback is not null
     pump |-> "off",            \* the updateResults loop
     prev |-> "none",           \* how the previous iteration of the loop ended
     inflight |-> << >>,        \* recognizeForVideo calls awaited
     results |-> 0,             \* this.results
     hookResults |-> 0,         \* useState results
     error |-> FALSE,           \* useState error is set
     last |-> RecLast("init", "none", FALSE, FALSE)]

\* A slip: the wrong readiness constant.
CanRecognizeHaveMetadata(hasRecognizer, readyState) ==
    hasRecognizer /\ readyState >= 1

\* updateResults / recognize: the detector may be invoked.
CanRecognize(hasRecognizer, readyState) ==
    hasRecognizer /\ readyState >= HAVE_CURRENT_DATA

\* A slip: requestAnimationFrame(updateResults) inside the try block.
AfterIterationInsideTry(outcome) ==
    IF outcome \in {"detectorThrew", "callbackThrew"} THEN "stopped" ELSE "scheduled"

\* updateResults: requestAnimationFrame(updateResults) ends every iteration.
AfterIteration(outcome) == "scheduled"

\* The result object of a successful detector call differs from the one before.
NewResult(old) == IF old = 1 THEN 2 ELSE 1

\* A slip: a failed frame clears the stored results.
ResultsAfterCleared(outcome, old) ==
    IF outcome = "ok" THEN NewResult(old) ELSE 0

\* this.results = await recognizeForVideo(...): assigned only if the call returns.
ResultsAfter(outcome, old) ==
    IF outcome = "ok" THEN NewResult(old) ELSE old

\* recognizeForVideo(videoElement, performance.now()) is called and awaited.
Invoke(r, by) ==
    [r EXCEPT !.inflight = Append(@, [by |-> by, readyState |-> r.readyState,
                                        overtaken |-> FALSE])]

\* The calls still in flight once call i has ended; if its result was handed
\* to the callback, the calls made before it are overtaken.
Remaining(calls, i, delivered) ==
    [j \in 1..(Len(calls) - 1) |->
        IF j < i THEN [calls[j] EXCEPT !.overtaken = @ \/ delivered]
                 ELSE calls[j + 1]]

\* updateResults up to its await: one iteration of the loop begins.
updateResultsBegin(r) ==
    IF CanRecognize(r.recognizer, r.readyState)
    THEN [Invoke(r, "pump") EXCEPT !.pump = "awaiting"]
    ELSE [r EXCEPT !.pump = AfterIteration("notReady"), !.prev = "notReady"]

\* A slip: the catch of initializeRecognizer does not set the error state.
CreateFailedSilently(r) == [r EXCEPT !.pc = "failed"]

\* initializeRecognizer: Recognizer.create rejected; the catch block runs.
CreateFailed(r) == [r EXCEPT !.pc = "failed", !.error = TRUE]

\* useEffectOnce(initializeRecognizer): the effect runs once after mount.
useEffectOnce(r) == r.pc = "notCalled"

-----------------------------------------------------------------------------
(* The classifier: App's derivation of (gestureType, isPersonDetected) from *)
(* the results (src/src/App.tsx), getAvatarResponse (AvatarStates.ts) and   *)
(* the gesture-to-video tables.  AvatarStates.ts holds two GESTURE_RESPONSES *)
(* tables with a getAvatarResponse each (lines 7-100 and 132-240); both are *)
(* modelled.  A landmark set is held as its number of points.               *)

MaxHands == 2

\* The value undefined.
Undefined == [undefined |-> TRUE]

\* A category name that is not a GestureType.
CategoryNames == GestureType \cup {"Unlisted"}

Response(state, mood, animation, duration, message) ==
    [state |-> state, mood |-> mood, animation |-> animation,
     duration |-> duration, message |-> message]

\* GESTURE_RESPONSES of AvatarStates.ts lines 7-57.
GESTURE_RESPONSES_7 ==
    ("Thumb_Up" :> Response("active", "happy", "thumbsUp", 2000, "Great job!")) @@
    ("Thumb_Down" :> Response("defensive", "sad", "thumbsDown", 1500, "Oh no...")) @@
    ("Closed_Fist" :> Response("defensive", "defensive", "defensive", 2000,
                               "I sense aggression...")) @@
    ("Open_Palm" :> Response("active", "excited", "wave", 2500, "Hello there!")) @@
    ("Pointing_Up" :> Response("active", "excited", "pointAcknowledge", 1800,
                               "I see you!")) @@
    ("Victory" :> Response("active", "excited", "victory", 2200, "Victory!")) @@
    ("None" :> Response("idle", "bored", "idle", 1000, "Waiting for gestures..."))

\* GESTURE_RESPONSES of AvatarStates.ts lines 132-196.
GESTURE_RESPONSES ==
    ("Thumb_Up" :> Response("active", "happy", "thumbsUp", 2000, "Great job!")) @@
    ("Thumb_Down" :> Response("defensive", "sad", "thumbsDown", 1500, "Oh no...")) @@
    ("Closed_Fist" :> Response("defensive", "defensive", "defensive", 2000,
                               "I sense aggression...")) @@
    ("Open_Palm" :> Response("active", "excited", "wave", 2500, "Hello there!")) @@
    ("Pointing_Up" :> Response("active", "excited", "hearts", 3000,
                               "We love you Andre!")) @@
    ("Victory" :> Response("active", "excited", "victory", 2200, "Victory!")) @@
    ("OK" :> Response("active", "excited", "hearts", 3000, "We love you Andre!")) @@
    ("ILoveYou" :> Response("active", "excited", "hearts", 3000, "I love you too!")) @@
    ("None" :> Response("idle", "bored", "idle", 1000, "Show me a gesture!"))

IDLE_ANIMATIONS == {"idle", "lookAround", "yawn", "stretch", "blink"}

\* table[key] of a JavaScript object: undefined for a key it does not have.
Lookup(table, key) == IF key \in DOMAIN table THEN table[key] ELSE Undefined

\* The descriptor getAvatarResponse returns when no person is detected.
NoPersonResponse ==
    Response("idle", "bored", "lookAround", 3000,
             "Looking for someone to interact with...")

\* A slip: the gesture is looked up before the person check.
AvatarResponseLabelFirst(table, gestureType, isPersonDetected) ==
    IF gestureType \in DOMAIN table /\ gestureType # "None"
    THEN table[gestureType]
    ELSE NoPersonResponse

\* getAvatarResponse over the table of its file.
AvatarResponse(table, gestureType, isPersonDetected) ==
    IF ~isPersonDetected THEN NoPersonResponse ELSE Lookup(table, gestureType)

\* getAvatarResponse of lines 225-240.
getAvatarResponse(gestureType, isPersonDetected) ==
    AvatarResponse(GESTURE_RESPONSES, gestureType, isPersonDetected)

\* getAvatarResponse of lines 85-100.
getAvatarResponse_85(gestureType, isPersonDetected) ==
    AvatarResponse(GESTURE_RESPONSES_7, gestureType, isPersonDetected)

\* The keys of avatarVariants; each key has an animation object of its own.
avatarVariants ==
    [k \in {"idle", "lookAround", "yawn", "stretch", "blink", "wave", "thumbsUp",
            "thumbsDown", "victory", "pointAcknowledge", "excited", "defensive",
            "shield", "backAway", "concerned"} |-> [variant |-> k]]

\* avatarVariants[animationName] || avatarVariants.idle
getAnimationVariant(animationName) ==
    IF animationName \in DOMAIN avatarVariants
    THEN avatarVariants[animationName]
    ELSE avatarVariants["idle"]

\* gestureToVideo of the VideoAvatar component.
vaGestureToVideo ==
    ("None" :> "idle") @@ ("Thumb_Up" :> "thumbs-up") @@ ("Thumb_Down" :> "defensive") @@
    ("Closed_Fist" :> "defensive") @@ ("Open_Palm" :> "wave") @@
    ("Pointing_Up" :> "love-you") @@ ("Victory" :> "peace") @@ ("OK" :> "wave") @@
    ("ILoveYou" :> "love-you")

\* getTargetVideo of the VideoAvatar component.
vaGetTargetVideo(gestureType, isPersonDetected) ==
    IF ~isPersonDetected
    THEN "idle"
    ELSE IF gestureType \in DOMAIN vaGestureToVideo
         THEN vaGestureToVideo[gestureType]
         ELSE "idle"

\* The results App can hold: null, or a result with the category name of
\* its first gesture (undefined: no gesture) and its list of landmark sets.
PointCounts == {0, 21}

LandmarkLists == UNION {[1..n -> PointCounts] : n \in 0..MaxHands}

\* No gesture in the result: gestures[0] is undefined.
NoGesture == "undefined"

ResultsValues ==
    {Null} \cup [categoryName : CategoryNames \cup {NoGesture}, landmarks : LandmarkLists]

\* App: results?.gestures[0]?.[0].categoryName ?? "None"
emojiLabel(results) ==
    IF results = Null THEN "None"
    ELSE IF results.categoryName = NoGesture THEN "None"
    ELSE results.categoryName

\* A slip: presence asks for a landmark set that has points.
PersonDetectedAnyPoints(results) ==
    IF results = Null THEN "undefined"
    ELSE IF \E i \in 1..Len(results.landmarks) : results.landmarks[i] > 0
         THEN "true" ELSE "false"

\* App: results?.landmarks && results.landmarks.length > 0
PersonDetectedValue(results) ==
    IF results = Null THEN "undefined"
    ELSE IF Len(results.landmarks) > 0 THEN "true" ELSE "false"

\* The value as a condition (undefined is falsy).
Truthy(v) == v = "true"

ClsInitial ==
    [results |-> Null, rendered |-> FALSE, gestureType |-> "None",
     isPersonDetected |-> FALSE, response |-> Undefined, response_85 |-> Undefined,
     targetVideo |-> "idle", vaTargetVideo |-> "idle"]

Message0 == "Hello! I'm your interactive avatar"

\* The Avatar component before its first effect has run.
AvatarInitial ==
    [gestureType |-> "None", isPersonDetected |-> FALSE,
     currentAnimation |-> "idle", currentMessage |-> Message0, isAnimating |-> FALSE,
     timer |-> Null,        \* the setTimeout of the effect: null, or its closure
     dirty |-> TRUE,        \* a render is pending
     deps |-> Null,         \* the dependencies of the effect at the last render
     op |-> "init"]

\* The VideoAvatar component before its first effect has run.
VaInitial ==
    [gestureType |-> "None", isPersonDetected |-> FALSE,
     videoState |-> [currentVideo |-> "idle", previousVideo |-> "idle",
                     isTransitioning |-> FALSE],
     timer |-> Null,        \* transitionTimeoutRef's timer: null, or the time left
     dirty |-> TRUE,
     deps |-> Null,
     from |-> Null,         \* history: currentVideo when the target last moved
     op |-> "init"]

-----------------------------------------------------------------------------
(* useRecognizer with initializeRecognizer called more than once.  Each     *)
(* call is an async function of its own: calls holds where each stands.     *)

UrInitial ==
    [videoRef |-> FALSE,        \* videoRef.current is set
     readyState |-> 0,          \* videoRef.current.readyState
     recognizerRef |-> FALSE,   \* recognizerRef.current is set
     error |-> FALSE,           \* useState error is set
     calls |-> << >>,           \* the calls of initializeRecognizer
     recognizers |-> 0,         \* Recognizer objects constructed
     loops |-> 0]               \* updateResults loops started

\* initializeRecognizer: the early return of line 231.
EarlyReturn(u) == ~u.videoRef \/ u.recognizerRef

-----------------------------------------------------------------------------
(* History record *)

Last(op, target, started, hadTimer, fresh, newest, first, elapsed) ==
    [op |-> op, target |-> target, started |-> started, hadTimer |-> hadTimer,
     fresh |-> fresh, newest |-> newest, first |-> first, elapsed |-> elapsed,
     thumbUp |-> FALSE]

-----------------------------------------------------------------------------
Init ==
    /\ videoState = [currentVideo |-> "idle", previousVideo |-> "idle",
                     isTransitioning |-> FALSE, transitionProgress |-> 0]
    /\ activeTransition = Null
    /\ tickers = << >>
    /\ timers = {}
    /\ transitionTimeoutRef = 0
    /\ mounted = TRUE
    /\ rec = RecInitial
    /\ cls = ClsInitial /\ avatar = AvatarInitial /\ va = VaInitial
    /\ ur = UrInitial
    /\ last = Last("init", "idle", FALSE, FALSE, FALSE, FALSE, FALSE, 0)

\* The useVideoAvatar hook after construction.
HookInitial ==
    /\ videoState = [currentVideo |-> "idle", previousVideo |-> "idle",
                     isTransitioning |-> FALSE, transitionProgress |-> 0]
    /\ activeTransition = Null
    /\ tickers = << >>
    /\ timers = {}
    /\ transitionTimeoutRef = 0
    /\ mounted = TRUE
    /\ last = Last("init", "idle", FALSE, FALSE, FALSE, FALSE, FALSE, 0)

\* startTransition(targetVideo), called from a handler with the given closure.
startTransition(targetVideo, closure) ==
    IF IsNoOp(targetVideo, closure)
    THEN UNCHANGED <<videoState, activeTransition, tickers>>
    ELSE /\ Len(tickers) < MaxTickers
         /\ activeTransition' = NewTransition(targetVideo, closure)
         /\ videoState' = BeginTransition(videoState, targetVideo)
         /\ tickers' = Append(Overwritten(Supersede(tickers)),
                              [elapsed |-> 0, newest |-> TRUE, ticked |-> FALSE,
                               held |-> TRUE])

\* handleGestureChange(gestureType, isPersonDetected)
handleGestureChange(gestureType, isPersonDetected) ==
    LET targetVideo == getTargetVideo(gestureType, isPersonDetected)
        closure == RenderClosure
        seen == {[t EXCEPT !.fresh = FALSE] : t \in timers}
    IN  /\ mounted
        /\ UNCHANGED <<mounted, rec, uiVars>>
        /\ startTransition(targetVideo, closure)
        /\ IF targetVideo # "idle" /\ isPersonDetected
           THEN LET cleared == ClearTimeout(seen, transitionTimeoutRef)
                IN  \E id \in FreeTimerIds(cleared) :
                        /\ id = CHOOSE k \in FreeTimerIds(cleared) :
                                    \A m \in FreeTimerIds(cleared) : k <= m
                        /\ timers' = cleared \cup
                                {[id |-> id, remaining |-> gestureResponseDuration,
                                  closure |-> closure, fresh |-> TRUE]}
                        /\ transitionTimeoutRef' = id
           ELSE /\ timers' = seen
                /\ UNCHANGED transitionTimeoutRef
        /\ last' = [Last("detect", targetVideo, ~IsNoOp(targetVideo, closure),
                         timers # {}, FALSE, FALSE, FALSE, 0)
                        EXCEPT !.thumbUp = (gestureType = "Thumb_Up" /\ isPersonDetected)]

Detection ==
    \E gestureType \in GestureType, isPersonDetected \in BOOLEAN :
        handleGestureChange(gestureType, isPersonDetected)

\* The callback of an armed revert timer runs: startTransition('idle') with
\* the closure of the render that armed it.
RevertTimerFires ==
    \E t \in timers :
        /\ t.remaining = 0
        /\ startTransition("idle", t.closure)
        /\ timers' = timers \ {t}
        /\ UNCHANGED <<transitionTimeoutRef, mounted, rec, uiVars>>
        /\ last' = Last("revert", "idle", ~IsNoOp("idle", t.closure),
                        FALSE, t.fresh, FALSE, FALSE, 0)

\* One run of the animateTransition callback of the i-th scheduled ticker.
animateTransition(i) ==
    LET t == tickers[i]
        progress == Progress(t)
        written == [videoState EXCEPT !.transitionProgress = progress]
    IN  /\ IF progress < ProgressOne
           THEN /\ videoState' = written
                /\ tickers' = [Overwritten(tickers) EXCEPT ![i].ticked = TRUE,
                                                           ![i].held = TRUE]
                /\ UNCHANGED activeTransition
           ELSE /\ videoState' = [written EXCEPT !.isTransitioning = FALSE,
                                                 !.transitionProgress = ProgressOne]
                /\ activeTransition' = Null
                /\ tickers' = RemoveAt(tickers, i)
        /\ UNCHANGED <<timers, transitionTimeoutRef, mounted, rec, uiVars>>
        /\ last' = Last("tick", "idle", FALSE, FALSE, FALSE, t.newest, ~t.ticked, t.elapsed)

AnimationFrame == \E i \in 1..Len(tickers) : animateTransition(i)

\* TimeStep milliseconds pass.
Advance ==
    /\ tickers' = [i \in 1..Len(tickers) |->
                      [tickers[i] EXCEPT !.elapsed = Min(@ + TimeStep, crossfadeDuration)]]
    /\ timers' = {[t EXCEPT !.remaining = Max(@ - TimeStep, 0)] : t \in timers}
    /\ activeTransition' =
          IF activeTransition = Null THEN Null
          ELSE [activeTransition EXCEPT !.age = Min(@ + TimeStep, crossfadeDuration)]
    /\ UNCHANGED <<videoState, transitionTimeoutRef, mounted, rec, uiVars>>
    /\ last' = Last("advance", "idle", FALSE, FALSE, FALSE, FALSE, FALSE, 0)

\* The cleanup of the hook's effect runs: the component unmounts.
Unmount ==
    /\ mounted
    /\ mounted' = FALSE
    /\ timers' = ClearTimeout(timers, transitionTimeoutRef)
    /\ tickers' = CancelAnimationFrame(tickers)
    /\ UNCHANGED <<videoState, activeTransition, transitionTimeoutRef, rec, uiVars>>
    /\ last' = Last("unmount", "idle", FALSE, timers # {}, FALSE, FALSE, FALSE, 0)

\* The steps of the hook while it stays mounted.
LiveNext ==
    \/ Detection
    \/ RevertTimerFires
    \/ AnimationFrame
    \/ Advance

Next ==
    \/ LiveNext
    \/ Unmount

Spec == Init /\ [][Next]_vars

\* The i-th scheduled animation callback, if there is one.
Tick(i) == i \in 1..Len(tickers) /\ animateTransition(i)

\* The hook stays mounted, time passes, and the host runs every scheduled
\* animation callback and every due timer callback.
LiveSpec ==
    /\ Init /\ [][LiveNext]_vars
    /\ WF_vars(Advance)
    /\ \A i \in 1..MaxTickers : WF_vars(Tick(i))
    /\ WF_vars(RevertTimerFires)

-----------------------------------------------------------------------------
(* Recognizer and useRecognizer: steps *)

\* The Webcam ref callback sets videoRef.current.
AttachVideo ==
    /\ ~rec.videoRef
    /\ rec' = [rec EXCEPT !.videoRef = TRUE, !.last = RecLast("attach", "none", FALSE, FALSE)]
    /\ UNCHANGED <<hookVars, uiVars>>

\* The video element gains or loses buffered data.
ReadyStateChange ==
    \E n \in ReadyStates :
        /\ rec.videoRef
        /\ n # rec.readyState
        /\ rec' = [rec EXCEPT !.readyState = n,
                              !.last = RecLast("ready", "none", FALSE, FALSE)]
        /\ UNCHANGED <<hookVars, uiVars>>

\* initializeRecognizer is called: early return, or waitForVideo begins.
initializeRecognizer ==
    /\ useEffectOnce(rec)
    /\ rec' = [rec EXCEPT
                 !.pc = IF ~rec.videoRef \/ rec.recognizerRef
                        THEN "returned" ELSE "waitForVideo",
                 !.last = RecLast("initialize", "none", FALSE, FALSE)]
    /\ UNCHANGED <<hookVars, uiVars>>

\* waitForVideo: checkVideo finds the video ready and Recognizer.create is called.
checkVideo ==
    /\ rec.pc = "waitForVideo"
    /\ rec.videoRef /\ rec.readyState >= HAVE_CURRENT_DATA
    /\ rec' = [rec EXCEPT !.pc = "create",
                          !.last = RecLast("checkVideo", "none", FALSE, FALSE)]
    /\ UNCHANGED <<hookVars, uiVars>>

\* Recognizer.create: the fetches and GestureRecognizer.createFromOptions
\* succeed (this.recognizer is set) or reject.
createFromOptions ==
    /\ rec.pc = "create"
    /\ \/ rec' = [rec EXCEPT !.pc = "waitForVideoReady", !.recognizer = TRUE,
                              !.last = RecLast("create", "ok", FALSE, FALSE)]
       \/ rec' = [CreateFailed(rec) EXCEPT
                              !.last = RecLast("create", "failed", FALSE, FALSE)]
    /\ UNCHANGED <<hookVars, uiVars>>

\* init: waitForVideoReady resolves and updateResults() is called.
startLoop ==
    /\ rec.pc = "waitForVideoReady"
    /\ rec.readyState >= HAVE_CURRENT_DATA
    /\ rec' = [updateResultsBegin([rec EXCEPT !.pc = "started"]) EXCEPT
                          !.last = RecLast("startLoop", "none", FALSE, FALSE)]
    /\ UNCHANGED <<hookVars, uiVars>>

\* Recognizer.create has returned: recognizerRef.current is set and the
\* callback is registered with onResults.
createReturns ==
    /\ rec.pc = "started"
    /\ rec' = [rec EXCEPT !.pc = "done", !.recognizerRef = TRUE,
                          !.resultsCallback = TRUE,
                          !.last = RecLast("registered", "none", FALSE, FALSE)]
    /\ UNCHANGED <<hookVars, uiVars>>

\* requestAnimationFrame runs updateResults.
updateResults ==
    /\ rec.pump = "scheduled"
    /\ rec' = [updateResultsBegin(rec) EXCEPT
                          !.last = RecLast("iterate", "none", FALSE, FALSE)]
    /\ UNCHANGED <<hookVars, uiVars>>

\* recognize() is called on the Recognizer that create returned.
recognize ==
    /\ rec.recognizerRef
    /\ IF ~CanRecognize(rec.recognizer, rec.readyState)
       THEN rec' = [rec EXCEPT !.last = RecLast("recognize", "null", FALSE, FALSE)]
       ELSE /\ Cardinality({i \in 1..Len(rec.inflight) :
                                rec.inflight[i].by = "manual"}) < MaxManual
            /\ rec' = [Invoke(rec, "manual") EXCEPT
                          !.last = RecLast("recognize", "called", FALSE, FALSE)]
    /\ UNCHANGED <<hookVars, uiVars>>

\* The awaited detector call i returns or throws; the rest of updateResults
\* or of recognize runs.  The callback, if it is called, may throw.
detectorCompletes(i, returned, callbackThrows) ==
    LET call == rec.inflight[i]
        delivered == returned /\ rec.resultsCallback
        outcome == IF ~returned THEN "detectorThrew"
                   ELSE IF delivered /\ callbackThrows THEN "callbackThrew"
                   ELSE "ok"
        results == ResultsAfter(IF returned THEN "ok" ELSE "detectorThrew", rec.results)
    IN  /\ rec' = [rec EXCEPT
                     !.inflight = Remaining(rec.inflight, i, delivered),
                     !.results = results,
                     !.hookResults = IF delivered /\ ~callbackThrows THEN results ELSE @,
                     !.pump = IF call.by = "pump" THEN AfterIteration(outcome) ELSE @,
                     !.prev = IF call.by = "pump" THEN outcome ELSE @,
                     !.last = RecLast(call.by, outcome, delivered,
                                      delivered /\ ~call.overtaken)]
        /\ UNCHANGED <<hookVars, uiVars>>

DetectorCompletes ==
    \E i \in 1..Len(rec.inflight), returned \in BOOLEAN, callbackThrows \in BOOLEAN :
        detectorCompletes(i, returned, callbackThrows)

PumpNext ==
    \/ AttachVideo
    \/ ReadyStateChange
    \/ initializeRecognizer
    \/ checkVideo
    \/ createFromOptions
    \/ startLoop
    \/ createReturns
    \/ updateResults
    \/ recognize
    \/ DetectorCompletes

PumpSpec == Init /\ [][PumpNext]_vars

\* The effect, the polling timers, the awaited promises and the animation
\* frames all run in the end; the video element owes nothing.
PumpLiveSpec ==
    /\ Init /\ [][PumpNext]_vars
    /\ WF_vars(initializeRecognizer)
    /\ WF_vars(checkVideo)
    /\ WF_vars(createFromOptions)
    /\ WF_vars(startLoop)
    /\ WF_vars(createReturns)
    /\ WF_vars(updateResults)
    /\ WF_vars(DetectorCompletes)

-----------------------------------------------------------------------------
(* useRecognizer with initializeRecognizer called more than once: steps *)

ReinitInit ==
    /\ HookInitial
    /\ rec = RecInitial
    /\ cls = ClsInitial /\ avatar = AvatarInitial /\ va = VaInitial
    /\ ur = UrInitial

urAttachVideo ==
    /\ ~ur.videoRef
    /\ ur' = [ur EXCEPT !.videoRef = TRUE]
    /\ UNCHANGED <<hookVars, rec, cls, avatar, va>>

urReadyStateChange ==
    \E n \in ReadyStates :
        /\ ur.videoRef
        /\ n # ur.readyState
        /\ ur' = [ur EXCEPT !.readyState = n]
        /\ UNCHANGED <<hookVars, rec, cls, avatar, va>>

\* initializeRecognizer is called: early return, or waitForVideo begins.
urInitialize ==
    /\ Len(ur.calls) < MaxCalls
    /\ ur' = [ur EXCEPT !.calls = Append(@, IF EarlyReturn(ur) THEN "returned"
                                             ELSE "waitForVideo")]
    /\ UNCHANGED <<hookVars, rec, cls, avatar, va>>

\* Call i goes on: checkVideo finds the video ready; the fetches and
\* createFromOptions succeed (the Recognizer has been constructed) or
\* reject; init starts the loop; create returns and recognizerRef is set.
urStep(i) ==
    /\ \/ /\ ur.calls[i] = "waitForVideo"
          /\ ur.videoRef /\ ur.readyState >= HAVE_CURRENT_DATA
          /\ ur' = [ur EXCEPT !.calls[i] = "create"]
       \/ /\ ur.calls[i] = "create"
          /\ \/ ur' = [ur EXCEPT !.calls[i] = "waitForVideoReady",
                                  !.recognizers = @ + 1]
             \/ ur' = [ur EXCEPT !.calls[i] = "failed", !.error = TRUE]
       \/ /\ ur.calls[i] = "waitForVideoReady"
          /\ ur.readyState >= HAVE_CURRENT_DATA
          /\ ur' = [ur EXCEPT !.calls[i] = "started", !.loops = @ + 1]
       \/ /\ ur.calls[i] = "started"
          /\ ur' = [ur EXCEPT !.calls[i] = "done", !.recognizerRef = TRUE]
    /\ UNCHANGED <<hookVars, rec, cls, avatar, va>>

urContinue == \E i \in 1..Len(ur.calls) : urStep(i)

ReinitNext == urAttachVideo \/ urReadyStateChange \/ urInitialize \/ urContinue

ReinitSpec == ReinitInit /\ [][ReinitNext]_vars

-----------------------------------------------------------------------------
(* The classifier applied to every results value *)

ClassifierInit ==
    /\ HookInitial
    /\ rec = RecInitial
    /\ cls \in {[ClsInitial EXCEPT !.results = r] : r \in ResultsValues}
    /\ avatar = AvatarInitial /\ va = VaInitial
    /\ ur = UrInitial

\* App renders: it derives gestureType and isPersonDetected from the results
\* (App.tsx:21-23); the consumers classify them.
AppRender ==
    LET gestureType == emojiLabel(cls.results)
        isPersonDetected == Truthy(PersonDetectedValue(cls.results))
    IN  /\ ~cls.rendered
        /\ cls' = [cls EXCEPT
                     !.rendered = TRUE,
                     !.gestureType = gestureType,
                     !.isPersonDetected = isPersonDetected,
                     !.response = getAvatarResponse(gestureType, isPersonDetected),
                     !.response_85 = getAvatarResponse_85(gestureType, isPersonDetected),
                     !.targetVideo = getTargetVideo(gestureType, isPersonDetected),
                     !.vaTargetVideo = vaGetTargetVideo(gestureType, isPersonDetected)]
        /\ UNCHANGED <<hookVars, rec, avatar, va, ur>>

\* setResults: the recognizer delivers another result.
SetResults ==
    \E r \in ResultsValues :
        /\ cls.rendered
        /\ cls' = [cls EXCEPT !.results = r, !.rendered = FALSE]
        /\ UNCHANGED <<hookVars, rec, avatar, va, ur>>

ClassifierNext == AppRender \/ SetResults

ClassifierSpec == ClassifierInit /\ [][ClassifierNext]_vars

-----------------------------------------------------------------------------
(* The Avatar component (src/unnamed/part_001).                              *)
(*                                                                          *)
(* A render runs with the component's latest state; the effect of lines     *)
(* 24-42 runs after a render whose dependencies differ from those of the    *)
(* render before.  The response object is one of the table's when a person  *)
(* is detected and a new object in every render when not, so that without  *)
(* a person the effect runs after every render.  Before the effect runs,    *)
(* the cleanup of its previous run clears that run's timer.  The timer may  *)
(* fire at any moment after it was armed (the render that follows the       *)
(* effect's state updates is not assumed to come first).                    *)

\* The dependencies [gestureType, isPersonDetected, response, isAnimating].
AvatarDeps(a) ==
    [gestureType |-> a.gestureType, isPersonDetected |-> a.isPersonDetected,
     isAnimating |-> a.isAnimating]

\* The effect runs after this render.
AvatarEffectRuns(a) ==
    \/ a.deps = Null
    \/ a.deps # AvatarDeps(a)
    \/ ~a.isPersonDetected

\* return () => clearTimeout(timer)
AvatarCleanup(a) == [a EXCEPT !.timer = Null]

\* A slip: the effect without its guard.
AvatarEffectInterrupting(a) ==
    LET response == getAvatarResponse(a.gestureType, a.isPersonDetected)
    IN  [a EXCEPT !.isAnimating = TRUE,
                  !.currentAnimation = response.animation,
                  !.currentMessage = response.message,
                  !.timer = [isPersonDetected |-> a.isPersonDetected],
                  !.dirty = TRUE,
                  !.op = "effect"]

\* The body of the effect, lines 25-39.
AvatarEffect(a) ==
    LET response == getAvatarResponse(a.gestureType, a.isPersonDetected)
    IN  IF a.isAnimating
        THEN [a EXCEPT !.dirty = FALSE, !.op = "skipped"]
        ELSE [a EXCEPT !.isAnimating = TRUE,
                       !.currentAnimation = response.animation,
                       !.currentMessage = response.message,
                       !.timer = [isPersonDetected |-> a.isPersonDetected],
                       !.dirty = TRUE,
                       !.op = "effect"]

AvatarInit ==
    /\ HookInitial
    /\ rec = RecInitial
    /\ cls = ClsInitial
    /\ avatar = AvatarInitial
    /\ va = VaInitial
    /\ ur = UrInitial

\* App renders Avatar with the props it has derived.
avatarProps ==
    \E gestureType \in GestureType, isPersonDetected \in BOOLEAN :
        /\ avatar' = [avatar EXCEPT !.gestureType = gestureType,
                                    !.isPersonDetected = isPersonDetected,
                                    !.dirty = TRUE,
                                    !.op = "props"]
        /\ UNCHANGED <<hookVars, rec, cls, va, ur>>

\* Avatar renders and, if its dependencies have changed, its effect runs.
avatarRender ==
    /\ avatar.dirty
    /\ avatar' = [(IF AvatarEffectRuns(avatar)
                   THEN AvatarEffect(AvatarCleanup(avatar))
                   ELSE [avatar EXCEPT !.dirty = FALSE, !.op = "render"])
                  EXCEPT !.deps = AvatarDeps(avatar)]
    /\ UNCHANGED <<hookVars, rec, cls, va, ur>>

\* The callback of the effect's setTimeout, lines 32-39.
avatarTimer ==
    \E randomIdle \in IDLE_ANIMATIONS :
        /\ avatar.timer # Null
        /\ avatar' = [avatar EXCEPT
                        !.isAnimating = FALSE,
                        !.currentAnimation =
                            IF ~avatar.timer.isPersonDetected THEN randomIdle ELSE @,
                        !.timer = Null,
                        !.dirty = TRUE,
                        !.op = "timer"]
        /\ UNCHANGED <<hookVars, rec, cls, va, ur>>

AvatarNext == avatarProps \/ avatarRender \/ avatarTimer

AvatarSpec == AvatarInit /\ [][AvatarNext]_vars

\* Pending renders and due timers run in the end.
AvatarLiveSpec ==
    AvatarInit /\ [][AvatarNext]_vars /\ WF_vars(avatarRender) /\ WF_vars(avatarTimer)

-----------------------------------------------------------------------------
(* The VideoAvatar component (src/unnamed/part_002).                         *)
(*                                                                          *)
(* The effect of lines 126-132 runs after a render whose dependencies       *)
(* [gestureType, isPersonDetected, videoState.currentVideo] differ from     *)
(* those of the render before; it calls transitionToVideo with the state of *)
(* that render.  A pending render runs before time moves on and before the  *)
(* next change of props (a render takes far less than the time between two  *)
(* results).  The timer                                                     *)
(* that calls playVideo after 100 ms touches no state and is left out.      *)

\* The delay of the timer that ends a transition (part_002:85).
vaCrossfadeDuration == 500

VaDeps(v) ==
    [gestureType |-> v.gestureType, isPersonDetected |-> v.isPersonDetected,
     currentVideo |-> v.videoState.currentVideo]

\* transitionToVideo(targetVideo), lines 62-86.
transitionToVideo(v, targetVideo) ==
    IF targetVideo = v.videoState.currentVideo /\ ~v.videoState.isTransitioning
    THEN [v EXCEPT !.dirty = FALSE, !.op = "noop"]
    ELSE [v EXCEPT !.videoState = [previousVideo |-> v.videoState.currentVideo,
                                    currentVideo |-> targetVideo,
                                    isTransitioning |-> TRUE],
                   !.timer = [remaining |-> vaCrossfadeDuration],
                   !.dirty = TRUE,
                   !.op = "transition"]

\* A slip: the end of a transition goes back to 'idle'.
vaTransitionEndsIdle(videoState_) ==
    [previousVideo |-> videoState_.currentVideo, currentVideo |-> "idle",
     isTransitioning |-> FALSE]

\* The updater of the timer callback, lines 81-84.
vaTransitionEnds(videoState_) ==
    [videoState_ EXCEPT !.isTransitioning = FALSE]

VideoInit ==
    /\ HookInitial
    /\ rec = RecInitial
    /\ cls = ClsInitial
    /\ avatar = AvatarInitial
    /\ va = VaInitial
    /\ ur = UrInitial

\* App renders VideoAvatar with changed props, once the renders that the
\* props before have caused are done.  from records currentVideo at this
\* instant if the target moves while no transition is under way.
vaProps ==
    \E gestureType \in GestureType, isPersonDetected \in BOOLEAN :
        LET moved == vaGetTargetVideo(gestureType, isPersonDetected)
                        # vaGetTargetVideo(va.gestureType, va.isPersonDetected)
        IN  /\ ~va.dirty
            /\ <<gestureType, isPersonDetected>> # <<va.gestureType, va.isPersonDetected>>
            /\ va' = [va EXCEPT
                        !.gestureType = gestureType,
                        !.isPersonDetected = isPersonDetected,
                        !.dirty = TRUE,
                        !.from = IF ~moved THEN @
                                 ELSE IF ~va.videoState.isTransitioning
                                      THEN [video |-> va.videoState.currentVideo]
                                      ELSE Null,
                        !.op = "props"]
            /\ UNCHANGED <<hookVars, rec, cls, avatar, ur>>

\* VideoAvatar renders and, if its dependencies have changed, its effect runs.
vaRender ==
    /\ va.dirty
    /\ va' = [(IF va.deps = Null \/ va.deps # VaDeps(va)
               THEN transitionToVideo(va, vaGetTargetVideo(va.gestureType,
                                                           va.isPersonDetected))
               ELSE [va EXCEPT !.dirty = FALSE, !.op = "render"])
              EXCEPT !.deps = VaDeps(va)]
    /\ UNCHANGED <<hookVars, rec, cls, avatar, ur>>

\* The timer of transitionTimeoutRef fires.
vaTimer ==
    /\ va.timer # Null
    /\ va.timer.remaining = 0
    /\ va' = [va EXCEPT !.videoState = vaTransitionEnds(@),
                        !.timer = Null,
                        !.dirty = TRUE,
                        !.op = "timer"]
    /\ UNCHANGED <<hookVars, rec, cls, avatar, ur>>

\* Time passes.
vaAdvance ==
    /\ ~va.dirty
    /\ va.timer # Null
    /\ va.timer.remaining > 0
    /\ va' = [va EXCEPT !.timer.remaining = Max(0, @ - TimeStep), !.op = "advance"]
    /\ UNCHANGED <<hookVars, rec, cls, avatar, ur>>

VideoNext == vaProps \/ vaRender \/ vaTimer \/ vaAdvance

VideoSpec == VideoInit /\ [][VideoNext]_vars

\* Pending renders run and due timers fire; time does not stand still
\* while props keep changing.
VideoLiveSpec ==
    /\ VideoInit /\ [][VideoNext]_vars
    /\ WF_vars(vaRender) /\ WF_vars(vaTimer) /\ SF_vars(vaAdvance)

-----------------------------------------------------------------------------
(* The crossfade as a function of progress: from any video state at        *)
(* progress 0, a ticker writes any later progress (time is continuous).     *)

Videos == {gestureToVideo[g] : g \in DOMAIN gestureToVideo}

OpacityInit ==
    /\ videoState \in [currentVideo : Videos, previousVideo : Videos,
                        isTransitioning : BOOLEAN,
                        transitionProgress : {0}]
    /\ activeTransition = Null
    /\ tickers = << >>
    /\ timers = {}
    /\ transitionTimeoutRef = 0
    /\ mounted = TRUE
    /\ rec = RecInitial
    /\ cls = ClsInitial /\ avatar = AvatarInitial /\ va = VaInitial
    /\ ur = UrInitial
    /\ last = Last("init", "idle", FALSE, FALSE, FALSE, FALSE, FALSE, 0)

\* animateTransition writes a progress that is not less than the one written before.
WriteProgress ==
    \E progress \in videoState.transitionProgress..crossfadeDuration :
        /\ videoState' = [videoState EXCEPT !.transitionProgress = progress]
        /\ UNCHANGED <<activeTransition, tickers, timers, transitionTimeoutRef,
                       mounted, rec, uiVars, last>>

OpacityNext == WriteProgress

OpacitySpec == OpacityInit /\ [][OpacityNext]_vars

-----------------------------------------------------------------------------
(* Properties *)

StartStep == last'.op \in {"detect", "revert"} /\ last'.started

\* C1: whenever startTransition starts a transition, the resulting videoState
\* has previousVideo = the currentVideo at the instant of the call,
\* currentVideo = the target, isTransitioning = true and progress 0, and
\* exactly one transition (one ticker, the only newest one) is started; also
\* when the call interrupts an incomplete transition.
C1_StartSnapshotsCurrent ==
    [][StartStep =>
          /\ videoState' = [previousVideo |-> videoState.currentVideo,
                            currentVideo |-> last'.target,
                            isTransitioning |-> TRUE,
                            transitionProgress |-> 0]
          /\ Len(tickers') = Len(tickers) + 1
          /\ Cardinality({i \in 1..Len(tickers') : tickers'[i].newest}) = 1
      ]_vars

\* C1 witness: a detection started a transition while the ticker of an
\* earlier transition was still scheduled.
C1_Witness ==
    /\ last.op = "detect" /\ last.started
    /\ Len(tickers) >= 2
    /\ videoState.previousVideo = "wave" /\ videoState.currentVideo = "idle"
    /\ videoState.isTransitioning

\* C2 (as claimed): at most one animateTransition ticker is alive.
C2_AtMostOneTicker == Len(tickers) <= 1

\* C3 (as claimed): a detection with target 'idle' that starts a transition
\* while a revert timer is armed cancels that timer.
C3_IdleTransitionCancelsTimer ==
    (last.op = "detect" /\ last.target = "idle" /\ last.started /\ last.hadTimer)
        => timers = {}

\* C4: at most one revert timer is armed, and it is the one whose handle
\* transitionTimeoutRef holds (the one armed by the last qualifying detection).
C4_AtMostOneTimer ==
    /\ Cardinality(timers) <= 1
    /\ \A t \in timers : t.id = transitionTimeoutRef

\* C4 witness: a qualifying detection arrived while a timer was armed and
\* partly run down, and replaced it by a new one.
C4_Witness ==
    /\ last.op = "detect" /\ last.hadTimer /\ last.target # "idle"
    /\ \E t \in timers : t.fresh /\ t.remaining = gestureResponseDuration

\* C5 (as claimed): when the revert timer fires and no detection arrived
\* since it was armed, its callback starts a transition to 'idle':
\* previousVideo is the non-idle behaviour, currentVideo = 'idle',
\* isTransitioning = true, progress 0.
C5_RevertStartsIdleTransition ==
    (last.op = "revert" /\ last.fresh)
        => /\ videoState.currentVideo = "idle"
           /\ videoState.previousVideo # "idle"
           /\ videoState.isTransitioning
           /\ videoState.transitionProgress = 0

\* C6: a detection whose target is currentVideo, handled while
\* isTransitioning = false, leaves videoState and activeTransition unchanged
\* and schedules no animation callback.
C6_NoOpIdempotent ==
    [][(last'.op = "detect" /\ last'.target = videoState.currentVideo
            /\ ~videoState.isTransitioning)
          => UNCHANGED <<videoState, activeTransition, tickers>>
      ]_vars

\* C6 witness: a detection of a wave gesture was handled while 'wave' was
\* shown and no transition was running; nothing was started.
C6_Witness ==
    /\ last.op = "detect" /\ last.target = "wave" /\ ~last.started
    /\ videoState.currentVideo = "wave" /\ ~videoState.isTransitioning
    /\ tickers = << >>

\* C7 (as claimed): while a transition to X is in progress, a further request
\* to transition to X is a no-op.
C7_RestartIsNoOp ==
    [][(last'.op = "detect" /\ last'.target = videoState.currentVideo
            /\ videoState.isTransitioning)
          => UNCHANGED <<videoState, activeTransition, tickers>>
      ]_vars

\* C8 (as claimed): between the start of a transition and the start of the
\* next, transitionProgress never decreases, and isTransitioning is reset
\* only when the time of the most recently started transition has run to
\* its full duration (its progress is 1).
C8_ProgressMonotone ==
    [][~StartStep =>
          /\ videoState'.transitionProgress >= videoState.transitionProgress
          /\ (videoState.isTransitioning /\ ~videoState'.isTransitioning)
                => \A i \in 1..Len(tickers) :
                        tickers[i].newest => tickers[i].elapsed >= crossfadeDuration
      ]_vars

\* No transition is running, none is published and no callback is scheduled;
\* progress is 1 unless no transition was ever started.
Quiescent ==
    /\ tickers = << >>
    /\ ~videoState.isTransitioning
    /\ activeTransition = Null
    /\ \/ videoState.transitionProgress = ProgressOne
       \/ videoState = [currentVideo |-> "idle", previousVideo |-> "idle",
                        isTransitioning |-> FALSE, transitionProgress |-> 0]

\* C9: every started transition terminates: if from some point on no new
\* transition is started, then eventually and for good progress is 1,
\* isTransitioning is false, activeTransition is null and no animation
\* callback is scheduled.
C9_TransitionTerminates ==
    <>[][~StartStep]_vars => <>[]Quiescent

\* C9 witness: the ticker of the latest transition (to 'wave') has completed
\* it and nothing is scheduled any more.
C9_Witness ==
    /\ last.op = "tick" /\ last.newest
    /\ videoState.currentVideo = "wave" /\ videoState.previousVideo = "idle"
    /\ Quiescent /\ videoState.transitionProgress = ProgressOne

\* C10: the progress a ticker callback writes is min(elapsed, duration)
\* (as a fraction of the duration) whatever callbacks ran before; a callback
\* that runs at or after startTime + crossfadeDuration writes 1, completes
\* the transition and is not rescheduled; an earlier one is rescheduled.
C10_ProgressFromElapsedTime ==
    [][last'.op = "tick" =>
          IF last'.elapsed >= crossfadeDuration
          THEN /\ videoState'.transitionProgress = ProgressOne
               /\ ~videoState'.isTransitioning
               /\ activeTransition' = Null
               /\ Len(tickers') = Len(tickers) - 1
          ELSE /\ videoState'.transitionProgress = last'.elapsed
               /\ videoState'.isTransitioning = videoState.isTransitioning
               /\ Len(tickers') = Len(tickers)
      ]_vars

\* C10 witness: the first callback of the latest transition's ticker ran
\* only after the whole crossfade duration had passed, and completed it.
C10_Witness ==
    /\ last.op = "tick" /\ last.first /\ last.newest
    /\ last.elapsed >= crossfadeDuration
    /\ videoState.transitionProgress = ProgressOne
    /\ ~videoState.isTransitioning

\* C11 (as claimed): once the unmount cleanup has run, no continuation is
\* left: no animation callback is scheduled and no revert timer is armed.
C11_TeardownCancelsAll ==
    ~mounted => (tickers = << >> /\ timers = {})

\* C12 (as claimed, for the detection sequences that end): the avatar does
\* not dwell on a non-resting behaviour: once no further detection arrives,
\* a transition back to 'idle' begins and 'idle' stays the current behaviour.
C12_DwellIsBounded ==
    <>[][last'.op # "detect"]_vars => <>[](videoState.currentVideo = "idle")

\* C13 (as claimed): in the resting state a detection of Thumb_Up with a
\* person present starts a transition from the resting behaviour to a
\* thumbs-up behaviour that is distinct from the resting behaviour.
C13_ThumbUpLeavesResting ==
    [][(last'.op = "detect" /\ last'.thumbUp
            /\ videoState.currentVideo = "idle" /\ ~videoState.isTransitioning)
          => /\ last'.started
             /\ videoState'.previousVideo = "idle"
             /\ videoState'.currentVideo # "idle"
             /\ videoState'.isTransitioning
      ]_vars

\* A transition between two distinct behaviours is running.
Crossfading ==
    videoState.isTransitioning /\ videoState.currentVideo # videoState.previousVideo

\* The video state with another progress.
AtProgress(progress) == [videoState EXCEPT !.transitionProgress = progress]

C14_Weights ==
    Crossfading =>
        LET in == getVideoOpacity(videoState.currentVideo)
            out == getVideoOpacity(videoState.previousVideo)
            progress == videoState.transitionProgress
        IN  /\ in \in 0..ProgressOne /\ out \in 0..ProgressOne
            /\ progress = 0 => (in = 0 /\ out = ProgressOne)
            /\ in = ProgressOne <=> progress * 2 >= ProgressOne
            /\ out = 0 <=> progress * 2 >= ProgressOne

C14_Monotone ==
    (Crossfading /\ videoState'.transitionProgress >= videoState.transitionProgress
        /\ [videoState' EXCEPT !.transitionProgress = 0] = AtProgress(0))
      => /\ Opacity(videoState', videoState.currentVideo)
                >= getVideoOpacity(videoState.currentVideo)
         /\ Opacity(videoState', videoState.previousVideo)
                <= getVideoOpacity(videoState.previousVideo)

-----------------------------------------------------------------------------
(* Properties of the Recognizer and of useRecognizer *)

\* C16: every result handed to the registered callback comes from a detector
\* call with a later timestamp than every result handed over before it, for
\* every interleaving of the loop with manual recognize() calls.
C16_DeliveredInTimestampOrder ==
    rec.last.delivered => rec.last.inOrder

PumpStarted == rec.pc \in {"started", "done"}

\* C17: once the loop has been started it is never stopped: it is either
\* scheduled for the next animation frame or awaiting the detector, and
\* every iteration, however it ended, leaves the next one scheduled.
C17_PumpNeverStops ==
    /\ PumpStarted => rec.pump \in {"scheduled", "awaiting"}
    /\ rec.last.op = "pump" => rec.pump = "scheduled"
    /\ rec.prev # "none" /\ rec.pump # "awaiting" => rec.pump = "scheduled"

\* C17 witness: the detector threw in the previous iteration and has been
\* invoked again by the next one.
C17_Witness ==
    /\ rec.prev = "detectorThrew"
    /\ rec.pump = "awaiting"
    /\ \E i \in 1..Len(rec.inflight) : rec.inflight[i].by = "pump"

C18_CalledOnlyWhenReady ==
    \A i \in 1..Len(rec.inflight) : rec.inflight[i].readyState >= HAVE_CURRENT_DATA

C18_NotReadyReturnsNull ==
    (rec'.last.op = "recognize" /\ rec.readyState < HAVE_CURRENT_DATA)
      => /\ rec'.last.outcome = "null"
         /\ ~rec'.last.delivered
         /\ rec'.inflight = rec.inflight
         /\ rec'.results = rec.results
         /\ rec'.hookResults = rec.hookResults

\* C18: no detector call, by the loop or by recognize(), is made while the
\* video's readyState is below 2, also after readiness was lost again; a
\* recognize() call in that state returns null, calls neither the detector
\* nor the callback and changes no results.
C18_NoDetectorCallBeforeReady ==
    []C18_CalledOnlyWhenReady /\ [][C18_NotReadyReturnsNull]_vars

\* C18 witness: the loop runs, the video has lost readiness, the loop has
\* skipped an iteration and recognize() has returned null.
C18_Witness ==
    /\ rec.pc = "done"
    /\ rec.readyState < HAVE_CURRENT_DATA
    /\ rec.prev = "notReady"
    /\ rec.hookResults # 0
    /\ rec.last.op = "recognize" /\ rec.last.outcome = "null"

\* C19: when a detector call throws, the callback is not called, the stored
\* results and the hook's results keep their values, and the state of the
\* useVideoAvatar hook is untouched.
C19_FailedFrameMutatesNothing ==
    [][rec'.last.outcome = "detectorThrew"
        => /\ ~rec'.last.delivered
           /\ rec'.results = rec.results
           /\ rec'.hookResults = rec.hookResults
           /\ UNCHANGED hookVars]_vars

\* C19 witness: a detector call of the loop threw after an earlier frame had
\* succeeded, and the results of that earlier frame are still held.
C19_Witness ==
    /\ rec.last.op = "pump" /\ rec.last.outcome = "detectorThrew"
    /\ rec.results # 0
    /\ rec.hookResults = rec.results

C20_Failed ==
    rec.pc = "failed"
      => /\ rec.error
         /\ rec.pump = "off"
         /\ rec.inflight = << >>
         /\ ~rec.recognizerRef /\ ~rec.resultsCallback
         /\ rec.results = 0 /\ rec.hookResults = 0
         /\ videoState = [currentVideo |-> "idle", previousVideo |-> "idle",
                          isTransitioning |-> FALSE, transitionProgress |-> 0]

C20_Persistent ==
    rec.pc = "failed" => rec'.pc = "failed" /\ rec'.error

\* C20: once Recognizer.create has failed inside initializeRecognizer the
\* error state is set and stays set, initialization is not attempted again,
\* no loop runs, no detector call is in flight, both results stay null and
\* videoState keeps its initial value.
C20_InitFailureIsFatal ==
    []C20_Failed /\ [][C20_Persistent]_vars

\* C20 witness: initialization has failed and afterwards the video has
\* reached readiness; the error is still set.
C20_Witness ==
    /\ rec.pc = "failed" /\ rec.error
    /\ rec.last.op = "ready"
    /\ rec.readyState >= HAVE_CURRENT_DATA

-----------------------------------------------------------------------------
(* Properties of the classifier *)

\* C22: classified with no person present, every label gives one and the
\* same resting descriptor: getAvatarResponse (either table) returns state
\* idle, mood bored, animation lookAround, and both getTargetVideo return 'idle'.
C22_NoPersonIsResting ==
    (cls.rendered /\ ~cls.isPersonDetected)
      => /\ cls.response = NoPersonResponse
         /\ cls.response_85 = NoPersonResponse
         /\ cls.response.state = "idle" /\ cls.response.mood = "bored"
         /\ cls.response.animation = "lookAround"
         /\ cls.targetVideo = "idle"
         /\ cls.vaTargetVideo = "idle"

\* C22 witness: a result that names Thumb_Up but has no landmarks has been classified.
C22_Witness ==
    /\ cls.rendered
    /\ cls.results # Null
    /\ cls.gestureType = "Thumb_Up"
    /\ ~cls.isPersonDetected
    /\ cls.response = NoPersonResponse

\* C23: for each of the nine GestureType labels and either presence value
\* getAvatarResponse returns a defined descriptor and the gesture-to-video
\* table has an entry.
C23_ClassifierTotal ==
    (cls.rendered /\ cls.gestureType \in GestureType)
      => /\ cls.response # Undefined
         /\ cls.response_85 # Undefined
         /\ cls.gestureType \in DOMAIN gestureToVideo
         /\ cls.gestureType \in DOMAIN vaGestureToVideo

\* C24: label None with a person present is classified differently from no
\* person present, both by getAvatarResponse and by getTargetVideo.
C24_WaitingDiffersFromNoPerson ==
    (cls.rendered /\ cls.gestureType = "None" /\ cls.isPersonDetected)
      => /\ cls.response # getAvatarResponse("None", FALSE)
         /\ cls.targetVideo # getTargetVideo("None", FALSE)

\* C25: a label outside GestureType with a person present is classified to
\* the resting descriptor, never to undefined.
C25_UnlistedLabelFailsSafe ==
    (cls.rendered /\ cls.gestureType \notin GestureType /\ cls.isPersonDetected)
      => /\ cls.response # Undefined
         /\ cls.response \in {NoPersonResponse, GESTURE_RESPONSES["None"]}
         /\ cls.targetVideo = "idle"

HasPoints(results) ==
    results # Null /\ \E i \in 1..Len(results.landmarks) : results.landmarks[i] > 0

\* C26 (as claimed): presence is true exactly if some landmark set of the
\* result has points; a result whose landmark sets are all empty gives false.
C26_PresentIffSomeSetNonEmpty ==
    cls.rendered => (cls.isPersonDetected <=> HasPoints(cls.results))

\* C26 (amended): presence is true exactly if the result is not null and its
\* list of landmark sets is not empty, whether or not the sets have points;
\* a null result gives false.
C26_PresentIffLandmarkListNonEmpty ==
    cls.rendered =>
        (cls.isPersonDetected <=> (cls.results # Null /\ Len(cls.results.landmarks) > 0))

\* C26 witness: a result whose only landmark set is empty has been
\* classified as a person present.
C26_Witness ==
    /\ cls.rendered
    /\ cls.results # Null
    /\ cls.results.landmarks = <<0>>
    /\ cls.isPersonDetected

-----------------------------------------------------------------------------
(* Source readiness *)

SourceReady == rec.videoRef /\ rec.readyState >= HAVE_CURRENT_DATA

C21_NothingBeforeReady ==
    rec.pc \in {"notCalled", "returned", "waitForVideo"}
      => ~rec.error /\ rec.pump = "off" /\ rec.inflight = << >>

\* C21: until the video source has been found ready no error is set and no
\* detector call is made; and if the source becomes ready and stays ready
\* (and creating the recognizer does not fail) the recognizer is created,
\* its loop started and the callback registered, with no further trigger.
C21_SourceUnavailableRecovered ==
    /\ []C21_NothingBeforeReady
    /\ (<>[]SourceReady /\ []~(rec.pc = "failed")) => <>(rec.pc = "done")

-----------------------------------------------------------------------------
(* Properties of the Avatar component *)

\* C27: whenever isAnimating is true it is false again later: the component
\* never stays with isAnimating = true for ever.
C27_AnimationEnds ==
    [](avatar.isAnimating => <>~avatar.isAnimating)

\* C28: while isAnimating is true, currentAnimation and currentMessage are
\* changed by no step but the timer callback; apart from that they change
\* only in an effect run that found isAnimating false.
C28_NoInterruption ==
    [][(avatar'.currentAnimation # avatar.currentAnimation
          \/ avatar'.currentMessage # avatar.currentMessage)
        => \/ avatar'.op = "timer"
           \/ avatar'.op = "effect" /\ ~avatar.isAnimating]_vars

\* C28 witness: the props have changed to Victory with a person present
\* while isAnimating was true, the effect has run and returned, and the
\* animation shown is still another one.
C28_Witness ==
    /\ avatar.op = "skipped"
    /\ avatar.isAnimating
    /\ avatar.gestureType = "Victory" /\ avatar.isPersonDetected
    /\ avatar.currentAnimation # "victory"

-----------------------------------------------------------------------------
(* Properties of the VideoAvatar component *)

\* No render is pending: the effect has reacted to the latest props.
VaSettled == ~va.dirty

VaTarget == vaGetTargetVideo(va.gestureType, va.isPersonDetected)

C29_TracksProps == VaSettled => va.videoState.currentVideo = VaTarget

C29_NoAutoRevert ==
    (va'.videoState.currentVideo = "idle" /\ va.videoState.currentVideo # "idle")
      => vaGetTargetVideo(va'.gestureType, va'.isPersonDetected) = "idle"

\* C29 (as claimed): at rest currentVideo is the target of the props,
\* currentVideo goes back to 'idle' only when the target is 'idle', and
\* after any prop change isTransitioning is false again later.
C29_TracksAndAlwaysSettles ==
    /\ []C29_TracksProps
    /\ [][C29_NoAutoRevert]_vars
    /\ []<>(~va.videoState.isTransitioning)

\* C29 (amended): at rest currentVideo is the target of the props,
\* currentVideo goes back to 'idle' only when the target is 'idle', and if
\* the props stop changing then from some moment on the component is at
\* rest on the target with isTransitioning false.
C29_TracksAndSettlesWhenPropsRest ==
    /\ []C29_TracksProps
    /\ [][C29_NoAutoRevert]_vars
    /\ <>[][va'.op # "props"]_vars
         => <>[](VaSettled /\ ~va.videoState.isTransitioning
                   /\ va.videoState.currentVideo = VaTarget)

\* C29 witness: Victory with a person present is shown, the transition has
\* ended and the component is at rest on 'peace'.
C29_Witness ==
    /\ VaSettled
    /\ va.op = "render"
    /\ va.gestureType = "Victory" /\ va.isPersonDetected
    /\ va.videoState.currentVideo = "peace"
    /\ ~va.videoState.isTransitioning

\* C30: after a prop change that moved the target from A, shown at rest, to
\* a different B, the component at rest has currentVideo = B and
\* previousVideo = A.
C30_PreviousVideoKept ==
    (VaSettled /\ va.from # Null)
      => /\ va.videoState.currentVideo = VaTarget
         /\ va.videoState.previousVideo = va.from.video

-----------------------------------------------------------------------------
(* Properties: one recognizer, no lost detection *)

\* C31: at most one Recognizer is constructed and at most one updateResults
\* loop is started, also when initializeRecognizer is called again while an
\* earlier call is still waiting.
C31_AtMostOneRecognizer ==
    ur.recognizers <= 1 /\ ur.loops <= 1

\* C32: every detector call of the loop that returns is followed by a call
\* of the registered callback with its result, the call made by the first
\* iteration included.
C32_NoDetectionLost ==
    (rec.last.op = "pump" /\ rec.last.outcome \in {"ok", "callbackThrew"})
      => rec.last.delivered

-----------------------------------------------------------------------------
(* Properties of the published state of the hook *)

RECURSIVE SumOpacity(_)
SumOpacity(videos) ==
    IF videos = {} THEN 0
    ELSE LET v == CHOOSE x \in videos : TRUE
         IN  getVideoOpacity(v) + SumOpacity(videos \ {v})

\* C33: in every reachable state of the hook the opacities of all videos
\* sum to exactly 1, so some video is visible; when no transition is under
\* way exactly currentVideo has opacity 1.
C33_OpacitiesSumToOne ==
    /\ SumOpacity(Videos) = ProgressOne
    /\ \E v \in Videos : getVideoOpacity(v) > 0
    /\ ~videoState.isTransitioning
         => \A v \in Videos :
                getVideoOpacity(v) = IF v = videoState.currentVideo THEN ProgressOne ELSE 0

\* C34: activeTransition is set exactly while isTransitioning is true, and
\* then its from is previousVideo and its to is currentVideo.
C34_TransitionRecordAgrees ==
    /\ (activeTransition # Null) <=> videoState.isTransitioning
    /\ activeTransition # Null
         => /\ activeTransition.from = videoState.previousVideo
            /\ activeTransition.to = videoState.currentVideo

\* C35: every video with an opacity above 0 is one that should play, and
\* currentVideo should always play.
C35_VisibleVideosPlay ==
    /\ \A v \in Videos : getVideoOpacity(v) > 0 => shouldPlayVideo(v)
    /\ shouldPlayVideo(videoState.currentVideo)

\* C35 witness: during a crossfade from 'idle' to 'wave' the outgoing video
\* is still visible and should play.
C35_Witness ==
    /\ videoState.isTransitioning
    /\ videoState.currentVideo = "wave" /\ videoState.previousVideo = "idle"
    /\ last.op = "tick"
    /\ getVideoOpacity("idle") > 0
    /\ shouldPlayVideo("idle")

\* C36: every animation the classifier names has a variant of its own: the
\* animation of the descriptor returned by getAvatarResponse is a key of
\* avatarVariants, and getAnimationVariant falls back to the idle variant
\* only for the animation 'idle' itself.
C36_EveryAnimationHasVariant ==
    (cls.rendered /\ cls.response # Undefined)
      => /\ cls.response.animation \in DOMAIN avatarVariants
         /\ getAnimationVariant(cls.response.animation) = avatarVariants["idle"]
              => cls.response.animation = "idle"

=============================================================================
